---- MODULE Spec2Model ----
(***************************************************************************)
(* A model of the goparse command-line parser (src/goparse.go).            *)
(*                                                                         *)
(* Strings that the code inspects character by character (tokens of        *)
(* os.Args, the Short and Long aliases) are sequences of one-character     *)
(* strings, so that strings.HasPrefix, len(arg), arg[j], "-"+def.Short     *)
(* and strconv.Atoi are computed as the code computes them.  Strings that  *)
(* the code only compares as a whole (Name, DataType) are TLA+ strings.    *)
(***************************************************************************)
EXTENDS Integers, Sequences, FiniteSets, TLC

(***************************************************************************)
(* Bounds of the model.                                                    *)
(***************************************************************************)
MaxArgs == 2      \* longest token list (os.Args[1:]) given to Parse
MaxDefs == 3      \* most AddArgument calls made on the parser
MaxGroups == 2    \* most AddExclusiveGroup calls made on the parser

(***************************************************************************)
(* Values of the result map (Go interface{} values), one record shape for  *)
(* every kind so that any two values can be compared.                      *)
(***************************************************************************)
NilV == [t |-> "nil", b |-> FALSE, n |-> 0, s |-> <<>>, l |-> <<>>]
BoolV(x) == [t |-> "bool", b |-> x, n |-> 0, s |-> <<>>, l |-> <<>>]
IntV(x) == [t |-> "int", b |-> FALSE, n |-> x, s |-> <<>>, l |-> <<>>]
StrV(x) == [t |-> "string", b |-> FALSE, n |-> 0, s |-> x, l |-> <<>>]
ListV(x) == [t |-> "[]string", b |-> FALSE, n |-> 0, s |-> <<>>, l |-> x]

(***************************************************************************)
(* Errors.  kind is the message format used by fmt.Errorf, the other       *)
(* fields are its arguments; NoErr is the nil error.                       *)
(*   UnknownArgument   "unknown argument: %s"                       tok    *)
(*   MissingValue      "no value provided for argument %s"          tok    *)
(*   TypeMismatch      "invalid value for argument '%s': ..."       name   *)
(*   UnknownKind       "unknown data type '%s' for argument '%s'"   dt,name*)
(*   MissingRequired   "missing required global argument: %s"       name   *)
(*   MutuallyExclusive "mutually exclusive options passed: %v"      opts   *)
(*   MissingOneOf      "one of the mutually exlusive options ..."   opts   *)
(***************************************************************************)
Err(k, tok, name, dt, opts) ==
    [kind |-> k, tok |-> tok, name |-> name, dt |-> dt, opts |-> opts]
NoErr == Err("nil", <<>>, "", "", <<>>)
ErrUnknownArgument(tok) == Err("UnknownArgument", tok, "", "", <<>>)
ErrMissingValue(tok) == Err("MissingValue", tok, "", "", <<>>)
ErrTypeMismatch(name) == Err("TypeMismatch", <<>>, name, "", <<>>)
ErrUnknownKind(dt, name) == Err("UnknownKind", <<>>, name, dt, <<>>)
ErrMissingRequired(name) == Err("MissingRequired", <<>>, name, "", <<>>)
ErrMutuallyExclusive(opts) == Err("MutuallyExclusive", <<>>, "", "", opts)
ErrMissingOneOf(opts) == Err("MissingOneOf", <<>>, "", "", opts)

(***************************************************************************)
(* map[string]interface{}: a function whose domain is the set of keys.     *)
(***************************************************************************)
EmptyMap == [k \in {} |-> NilV]
Has(m, k) == k \in DOMAIN m
\* Variant: an entry that exists is kept.
PutIfAbsent(m, k, v) == [x \in (DOMAIN m) \cup {k} |-> IF x \in DOMAIN m THEN m[x] ELSE v]

Put(m, k, v) == [x \in (DOMAIN m) \cup {k} |-> IF x = k THEN v ELSE m[x]]

(***************************************************************************)
(* String helpers.                                                         *)
(***************************************************************************)
HasPrefix(s, p) == Len(s) >= Len(p) /\ SubSeq(s, 1, Len(p)) = p
Dash == <<"-">>
DashDash == <<"-", "-">>

Digits == <<"0", "1", "2", "3", "4", "5", "6", "7", "8", "9">>
IsDigit(c) == \E d \in 1..10 : Digits[d] = c
DigitVal(c) == (CHOOSE d \in 1..10 : Digits[d] = c) - 1
RECURSIVE DigitsValue(_, _)
DigitsValue(s, acc) ==
    IF s = <<>> THEN acc ELSE DigitsValue(Tail(s), acc * 10 + DigitVal(Head(s)))

RECURSIVE StripZeros(_)
StripZeros(s) ==
    IF s # <<>> /\ Head(s) = "0" THEN StripZeros(Tail(s)) ELSE s

\* s <= t for two digit strings of the same length
RECURSIVE DigitsLeq(_, _)
DigitsLeq(s, t) ==
    IF s = <<>> THEN TRUE
    ELSE IF DigitVal(Head(s)) < DigitVal(Head(t)) THEN TRUE
    ELSE IF DigitVal(Head(s)) > DigitVal(Head(t)) THEN FALSE
    ELSE DigitsLeq(Tail(s), Tail(t))

\* The digits of the largest int, 2^63 - 1, and of the magnitude of the
\* smallest, 2^63: the range test of strconv.Atoi is made on the digits.
MaxIntDigits == <<"9","2","2","3","3","7","2","0","3","6","8","5","4","7","7","5","8","0","7">>
MinIntDigits == <<"9","2","2","3","3","7","2","0","3","6","8","5","4","7","7","5","8","0","8">>

InRange(body, neg) ==
    LET d == StripZeros(body)
        lim == IF neg THEN MinIntDigits ELSE MaxIntDigits
    IN  \/ Len(d) < Len(lim)
        \/ Len(d) = Len(lim) /\ DigitsLeq(d, lim)

\* Variant: text that is no number is read as 0, without error.
AtoiNoError(s) == [ok |-> TRUE, n |-> 0]

\* strconv.Atoi: an optional sign, then one or more decimal digits, whose
\* value is in the range of int (64 bits).
Atoi(s) ==
    LET signed == s # <<>> /\ Head(s) \in {"+", "-"}
        body == IF signed THEN Tail(s) ELSE s
        neg == signed /\ Head(s) = "-"
        wellFormed == body # <<>> /\ \A k \in 1..Len(body) : IsDigit(body[k])
    IN  IF wellFormed /\ InRange(body, neg)
        THEN [ok |-> TRUE,
              n |-> IF neg THEN 0 - DigitsValue(body, 0) ELSE DigitsValue(body, 0)]
        ELSE [ok |-> FALSE, n |-> 0]

(***************************************************************************)
(* Argument and ExclusiveGroup, as built by AddArgument and                *)
(* AddExclusiveGroup.  Description is never read by Parse and is left out. *)
(***************************************************************************)
Argument(name, short, long, dataType, required, defaultValue) ==
    [Name |-> name, Short |-> short, Long |-> long, DataType |-> dataType,
     DefaultValue |-> defaultValue, Required |-> required]
ExclusiveGroup(optionNames, mustHave) ==
    [Options |-> optionNames, MustHave |-> mustHave]

(***************************************************************************)
(* containsHelpArgument and requestedVersion: a loop over all tokens.      *)
(***************************************************************************)
HelpShort == <<"-", "h">>
HelpLong == <<"-", "-", "h", "e", "l", "p">>
VersionLong == <<"-", "-", "v", "e", "r", "s", "i", "o", "n">>

\* Variant: only the first token is looked at.
containsHelpArgumentFirstOnly(args) ==
    args # <<>> /\ (Head(args) = HelpShort \/ Head(args) = HelpLong)

RECURSIVE containsHelpArgument(_)
containsHelpArgument(args) ==
    IF args = <<>> THEN FALSE
    ELSE IF Head(args) = HelpShort \/ Head(args) = HelpLong THEN TRUE
    ELSE containsHelpArgument(Tail(args))

RECURSIVE requestedVersion(_)
requestedVersion(args) ==
    IF args = <<>> THEN FALSE
    ELSE IF Head(args) = VersionLong THEN TRUE
    ELSE requestedVersion(Tail(args))

(***************************************************************************)
(* parseArguments, the stacked branch (a single dash, no second dash, more *)
(* than two characters): for each character after the dash the first Bool  *)
(* definition with that Short is set to true in the map at once; a         *)
(* character with no such definition returns the error, and the entries    *)
(* already written stay in the map.                                        *)
(***************************************************************************)
isStacked(arg) ==
    HasPrefix(arg, Dash) /\ ~HasPrefix(arg, DashDash) /\ Len(arg) > 2

stackedDef(defs, shortFlag) ==
    LET hits == {k \in 1..Len(defs) :
                    defs[k].Short = shortFlag /\ defs[k].DataType = "bool"}
    IN  IF hits = {} THEN 0 ELSE CHOOSE k \in hits : \A h \in hits : k <= h

RECURSIVE parseStacked(_, _, _, _)
parseStacked(defs, arg, j, m) ==
    IF j > Len(arg) THEN [m |-> m, err |-> NoErr]
    ELSE LET shortFlag == <<arg[j]>>
             k == stackedDef(defs, shortFlag)
         IN  IF k = 0
             THEN [m |-> m, err |-> ErrUnknownArgument(Dash \o shortFlag)]
             ELSE parseStacked(defs, arg, j + 1, Put(m, defs[k].Name, BoolV(TRUE)))

(***************************************************************************)
(* parseArguments, the normal branch: the loop over defs for the token     *)
(* arg = args[i].  A Bool match breaks out of the loop; a non-Bool match   *)
(* does not, so the loop goes on to the later definitions with the index   *)
(* i already moved past the consumed value tokens.                         *)
(***************************************************************************)
\* Variant: the capture runs to the end of the token list.
listEndOfInput(args, i) == Len(args)

RECURSIVE listEnd(_, _)
listEnd(args, i) ==
    IF i + 1 <= Len(args) /\ ~HasPrefix(args[i + 1], Dash)
    THEN listEnd(args, i + 1) ELSE i

\* Variant: only the short form is compared.
flagMatchesShortOnly(def, arg) == arg = Dash \o def.Short

flagMatches(def, arg) == arg = Dash \o def.Short \/ arg = DashDash \o def.Long

\* Variant: any following token is taken as the value.
hasValueAnyToken(args, i) == i + 1 <= Len(args)

hasValue(args, i) == i + 1 <= Len(args) /\ ~HasPrefix(args[i + 1], Dash)

RECURSIVE parseFlag(_, _, _, _, _, _, _)
parseFlag(defs, args, arg, k, i, m, found) ==
    IF k > Len(defs) THEN [i |-> i, m |-> m, found |-> found, err |-> NoErr]
    ELSE LET def == defs[k] IN
      IF ~flagMatches(def, arg)
      THEN parseFlag(defs, args, arg, k + 1, i, m, found)
      ELSE IF def.DataType = "bool"
      THEN [i |-> i, m |-> Put(m, def.Name, BoolV(TRUE)), found |-> TRUE, err |-> NoErr]
      ELSE IF ~hasValue(args, i)
      THEN [i |-> i, m |-> m, found |-> TRUE, err |-> ErrMissingValue(arg)]
      ELSE LET rawValue == args[i + 1] IN
        CASE def.DataType = "int" ->
               IF Atoi(rawValue).ok
               THEN parseFlag(defs, args, arg, k + 1, i + 1,
                              Put(m, def.Name, IntV(Atoi(rawValue).n)), TRUE)
               ELSE [i |-> i + 1, m |-> m, found |-> TRUE,
                     err |-> ErrTypeMismatch(def.Name)]
          [] def.DataType = "string" ->
               parseFlag(defs, args, arg, k + 1, i + 1,
                         Put(m, def.Name, StrV(rawValue)), TRUE)
          [] def.DataType = "[]string" ->
               parseFlag(defs, args, arg, k + 1, listEnd(args, i + 1),
                         Put(m, def.Name,
                             ListV(SubSeq(args, i + 1, listEnd(args, i + 1)))), TRUE)
          [] OTHER ->
               [i |-> i + 1, m |-> m, found |-> TRUE,
                err |-> ErrUnknownKind(def.DataType, def.Name)]

(***************************************************************************)
(* One iteration of the outer loop of parseArguments, on the token args[i].*)
(* The result holds the index of the next iteration (or, with an error,    *)
(* the index at the return), the map and the error returned.               *)
(***************************************************************************)
\* Variant: the index moves on by one whatever the flag consumed.
parseTokenValueNotSkipped(defs, args, i, m) ==
    IF isStacked(args[i])
    THEN LET r == parseStacked(defs, args[i], 2, m)
         IN  [i |-> IF r.err = NoErr THEN i + 1 ELSE i, m |-> r.m, err |-> r.err]
    ELSE LET r == parseFlag(defs, args, args[i], 1, i, m, FALSE)
         IN  IF r.err # NoErr THEN [i |-> r.i, m |-> r.m, err |-> r.err]
             ELSE IF ~r.found
             THEN [i |-> i, m |-> r.m, err |-> ErrUnknownArgument(args[i])]
             ELSE [i |-> i + 1, m |-> r.m, err |-> NoErr]

parseToken(defs, args, i, m) ==
    IF isStacked(args[i])
    THEN LET r == parseStacked(defs, args[i], 2, m)
         IN  [i |-> IF r.err = NoErr THEN i + 1 ELSE i, m |-> r.m, err |-> r.err]
    ELSE LET r == parseFlag(defs, args, args[i], 1, i, m, FALSE)
         IN  IF r.err # NoErr THEN [i |-> r.i, m |-> r.m, err |-> r.err]
             ELSE IF ~r.found
             THEN [i |-> r.i, m |-> r.m, err |-> ErrUnknownArgument(args[i])]
             ELSE [i |-> r.i + 1, m |-> r.m, err |-> NoErr]

(***************************************************************************)
(* parseArguments, "Handle defaults after parsing": a definition with no   *)
(* entry gets its DefaultValue when that is not nil, else false when it is *)
(* a Bool, else nothing.                                                   *)
(***************************************************************************)
RECURSIVE applyDefaults(_, _, _)
applyDefaults(defs, k, m) ==
    IF k > Len(defs) THEN m
    ELSE LET def == defs[k] IN
      IF Has(m, def.Name) THEN applyDefaults(defs, k + 1, m)
      ELSE IF def.DefaultValue # NilV
      THEN applyDefaults(defs, k + 1, Put(m, def.Name, def.DefaultValue))
      ELSE IF def.DataType = "bool"
      THEN applyDefaults(defs, k + 1, Put(m, def.Name, BoolV(FALSE)))
      ELSE applyDefaults(defs, k + 1, m)

(***************************************************************************)
(* Parse, "Validate global required args": the error of the first required*)
(* definition whose name has no entry in the map.                          *)
(***************************************************************************)
RECURSIVE validateRequired(_, _, _)
validateRequired(defs, k, m) ==
    IF k > Len(defs) THEN NoErr
    ELSE IF defs[k].Required /\ ~Has(m, defs[k].Name)
    THEN ErrMissingRequired(defs[k].Name)
    ELSE validateRequired(defs, k + 1, m)

(***************************************************************************)
(* validateExclusiveGroups: the groups in declaration order, the first     *)
(* failing group returns.                                                  *)
(***************************************************************************)
foundCount(group, m) ==
    Cardinality({j \in 1..Len(group.Options) : Has(m, group.Options[j])})

\* Variant: a group fails only with more than two of its options present.
RECURSIVE validateExclusiveGroupsOverTwo(_, _, _)
validateExclusiveGroupsOverTwo(groups, g, m) ==
    IF g > Len(groups) THEN NoErr
    ELSE IF foundCount(groups[g], m) > 2
    THEN ErrMutuallyExclusive(groups[g].Options)
    ELSE IF groups[g].MustHave /\ foundCount(groups[g], m) = 0
    THEN ErrMissingOneOf(groups[g].Options)
    ELSE validateExclusiveGroupsOverTwo(groups, g + 1, m)

RECURSIVE validateExclusiveGroups(_, _, _)
validateExclusiveGroups(groups, g, m) ==
    IF g > Len(groups) THEN NoErr
    ELSE IF foundCount(groups[g], m) > 1
    THEN ErrMutuallyExclusive(groups[g].Options)
    ELSE IF groups[g].MustHave /\ foundCount(groups[g], m) = 0
    THEN ErrMissingOneOf(groups[g].Options)
    ELSE validateExclusiveGroups(groups, g + 1, m)

(***************************************************************************)
(* PrintHelp sorts p.args in place by Name with sort.Slice; for a slice of *)
(* fewer than 12 elements sort.Slice is an insertion sort, which keeps the *)
(* order of equal names.  NameOrder lists the names of the model in the    *)
(* order of Go's string comparison.                                        *)
(***************************************************************************)
NameOrder == <<"a", "b", "c">>
nameRank(name) == CHOOSE r \in 1..Len(NameOrder) : NameOrder[r] = name
nameLess(x, y) == nameRank(x) < nameRank(y)

RECURSIVE insertByName(_, _)
insertByName(sorted, d) ==
    IF sorted # <<>> /\ nameLess(d.Name, sorted[Len(sorted)].Name)
    THEN Append(insertByName(SubSeq(sorted, 1, Len(sorted) - 1), d),
                sorted[Len(sorted)])
    ELSE Append(sorted, d)

RECURSIVE sortByName(_)
sortByName(defs) ==
    IF defs = <<>> THEN <<>>
    ELSE insertByName(sortByName(SubSeq(defs, 1, Len(defs) - 1)), defs[Len(defs)])

(***************************************************************************)
(* The inputs of the model: the definitions and groups the host program    *)
(* may declare, and the tokens it may be run with.                         *)
(***************************************************************************)
ShortA == <<"a">>
ShortB == <<"b">>
LongA == <<"a", "a">>
LongB == <<"b", "b">>
LongC == <<"c", "c">>

DefaultOf(dataType) ==
    CASE dataType = "bool" -> BoolV(TRUE)
      [] dataType = "int" -> IntV(7)
      [] dataType = "string" -> StrV(<<"d">>)
      [] dataType = "[]string" -> ListV(<< <<"d">> >>)
      [] OTHER -> StrV(<<"d">>)

\* "a" and "c" share the short alias -a; "b" is reached by --bb and, when it
\* is a Bool, by the stacked token -ab.
DefPool ==
    {Argument("a", ShortA, LongA, "bool", FALSE, NilV),
     Argument("a", ShortA, LongA, "string", FALSE, NilV),
     Argument("a", ShortA, LongA, "string", TRUE, NilV),
     Argument("a", ShortA, LongA, "string", FALSE, DefaultOf("string")),
     Argument("b", ShortB, LongB, "bool", FALSE, NilV),
     Argument("b", ShortB, LongB, "bool", TRUE, NilV),
     Argument("b", ShortB, LongB, "int", FALSE, NilV),
     Argument("b", ShortB, LongB, "int", TRUE, DefaultOf("int")),
     Argument("b", ShortB, LongB, "[]string", FALSE, NilV),
     Argument("b", ShortB, LongB, "float", FALSE, NilV),
     Argument("c", ShortA, LongC, "bool", FALSE, NilV),
     Argument("c", ShortA, LongC, "string", FALSE, NilV)}

GroupPool ==
    {ExclusiveGroup(<<"a", "b">>, FALSE), ExclusiveGroup(<<"c">>, TRUE)}

Tokens ==
    {<<"-", "a">>, <<"-", "-", "b", "b">>, <<"-", "a", "b">>,
     <<"5">>, <<"x">>, HelpShort, HelpLong, VersionLong}

TokenLists(toks, n) == UNION {[1..k -> toks] : k \in 0..n}

(***************************************************************************)
(* State.                                                                  *)
(*   args, exclusiveGroups   the fields of the Parser                      *)
(*   commands                the subcommands of the subcommand-capable     *)
(*                           Parser (none in goparse.go)                   *)
(*   osArgs                  os.Args[1:] of the current Parse call         *)
(*   pc                      "build": Parse not called yet; "scan",        *)
(*                           "required", "groups": position of the call;   *)
(*                           "done": the call has returned                 *)
(*   i, parsedArgs           the locals of parseArguments and Parse        *)
(*   supplied                the names written by the scan of the tokens,  *)
(*                           as they stand when the scan ends              *)
(*   ret                     what Parse returned                           *)
(***************************************************************************)
VARIABLES args, exclusiveGroups, commands, osArgs, pc, i, parsedArgs, supplied, ret

vars == <<args, exclusiveGroups, commands, osArgs, pc, i, parsedArgs, supplied, ret>>

Return(result, shouldExit, err) ==
    [nilResult |-> FALSE, result |-> result, shouldExit |-> shouldExit, err |-> err]
ReturnNil(shouldExit, err) ==
    [nilResult |-> TRUE, result |-> EmptyMap, shouldExit |-> shouldExit, err |-> err]

\* NewParser with no Parse call made yet
Init ==
    /\ args = <<>>
    /\ exclusiveGroups = <<>>
    /\ commands = <<>>
    /\ osArgs = <<>>
    /\ pc = "build"
    /\ i = 1
    /\ parsedArgs = EmptyMap
    /\ supplied = {}
    /\ ret = ReturnNil(FALSE, NoErr)

\* The host program gives each argument a name of its own.
AddArgument(d) ==
    /\ Len(args) < MaxDefs
    /\ \A k \in 1..Len(args) : args[k].Name # d.Name
    /\ args' = Append(args, d)
    /\ UNCHANGED <<exclusiveGroups, commands, osArgs, pc, i, parsedArgs, supplied, ret>>

\* The host program names declared options in its groups.
AddExclusiveGroup(g) ==
    /\ Len(exclusiveGroups) < MaxGroups
    /\ \A j \in 1..Len(g.Options) : \E k \in 1..Len(args) : args[k].Name = g.Options[j]
    /\ exclusiveGroups' = Append(exclusiveGroups, g)
    /\ UNCHANGED <<args, commands, osArgs, pc, i, parsedArgs, supplied, ret>>

\* Parse, line 224: no token or a help token; PrintHelp sorts p.args.
ParseHelp(tokens) ==
    /\ Len(tokens) = 0 \/ containsHelpArgument(tokens)
    /\ osArgs' = tokens
    /\ args' = sortByName(args)
    /\ i' = 1 /\ parsedArgs' = EmptyMap /\ supplied' = {}
    /\ ret' = ReturnNil(TRUE, NoErr)
    /\ pc' = "done"
    /\ UNCHANGED <<exclusiveGroups, commands>>

\* Parse, line 229: a version token and no help token.
ParseVersion(tokens) ==
    /\ ~(Len(tokens) = 0 \/ containsHelpArgument(tokens))
    /\ requestedVersion(tokens)
    /\ osArgs' = tokens
    /\ i' = 1 /\ parsedArgs' = EmptyMap /\ supplied' = {}
    /\ ret' = ReturnNil(TRUE, NoErr)
    /\ pc' = "done"
    /\ UNCHANGED <<args, exclusiveGroups, commands>>

\* Parse, lines 235-238: the call of parseArguments on an empty map.
ParseBegin(tokens) ==
    /\ ~(Len(tokens) = 0 \/ containsHelpArgument(tokens))
    /\ ~requestedVersion(tokens)
    /\ osArgs' = tokens
    /\ i' = 1 /\ parsedArgs' = EmptyMap /\ supplied' = {}
    /\ ret' = ReturnNil(FALSE, NoErr)
    /\ pc' = "scan"
    /\ UNCHANGED <<args, exclusiveGroups, commands>>

\* Variant: the error is returned without the exit signal.
parseErrorNoExit(err, tokens) ==
    IF err.kind = "UnknownArgument"
    THEN ReturnNil(FALSE, ErrUnknownArgument(tokens[1]))
    ELSE ReturnNil(FALSE, err)

\* Parse, lines 239-244: what Parse returns for an error of parseArguments.
parseError(err, tokens) ==
    IF err.kind = "UnknownArgument"
    THEN ReturnNil(TRUE, ErrUnknownArgument(tokens[1]))
    ELSE ReturnNil(TRUE, err)

\* parseArguments as one function: the loop over the tokens from index i,
\* then the defaults; with an error, the map as it stands at the return.
RECURSIVE parseArguments(_, _, _, _)
parseArguments(defs, tokens, k, m) ==
    IF k > Len(tokens) THEN [m |-> applyDefaults(defs, 1, m), err |-> NoErr]
    ELSE LET r == parseToken(defs, tokens, k, m)
         IN  IF r.err # NoErr THEN [m |-> r.m, err |-> r.err]
             ELSE parseArguments(defs, tokens, r.i, r.m)

\* Parse as one function of the schema and the token list: what it returns.
Parse(defs, groups, tokens) ==
    IF Len(tokens) = 0 \/ containsHelpArgument(tokens) THEN ReturnNil(TRUE, NoErr)
    ELSE IF requestedVersion(tokens) THEN ReturnNil(TRUE, NoErr)
    ELSE LET r == parseArguments(defs, tokens, 1, EmptyMap) IN
      IF r.err # NoErr THEN parseError(r.err, tokens)
      ELSE IF validateRequired(defs, 1, r.m) # NoErr
      THEN ReturnNil(TRUE, validateRequired(defs, 1, r.m))
      ELSE IF validateExclusiveGroups(groups, 1, r.m) # NoErr
      THEN ReturnNil(TRUE, validateExclusiveGroups(groups, 1, r.m))
      ELSE Return(r.m, FALSE, NoErr)

\* One iteration of the loop of parseArguments.
ScanToken ==
    /\ pc = "scan"
    /\ i <= Len(osArgs)
    /\ LET r == parseToken(args, osArgs, i, parsedArgs) IN
         /\ i' = r.i
         /\ parsedArgs' = r.m
         /\ IF r.err = NoErr
            THEN UNCHANGED <<pc, ret>>
            ELSE /\ pc' = "done"
                 /\ ret' = parseError(r.err, osArgs)
    /\ UNCHANGED <<args, exclusiveGroups, commands, osArgs, supplied>>

ScanStacked == pc = "scan" /\ i <= Len(osArgs) /\ isStacked(osArgs[i]) /\ ScanToken
ScanFlag == pc = "scan" /\ i <= Len(osArgs) /\ ~isStacked(osArgs[i]) /\ ScanToken

\* The end of parseArguments: the loop is over, the defaults are installed.
ScanEnd ==
    /\ pc = "scan"
    /\ i > Len(osArgs)
    /\ supplied' = DOMAIN parsedArgs
    /\ parsedArgs' = applyDefaults(args, 1, parsedArgs)
    /\ pc' = "required"
    /\ UNCHANGED <<args, exclusiveGroups, commands, osArgs, i, ret>>

\* Parse, lines 246-253.
CheckRequired ==
    /\ pc = "required"
    /\ LET err == validateRequired(args, 1, parsedArgs) IN
         IF err = NoErr
         THEN pc' = "groups" /\ UNCHANGED ret
         ELSE pc' = "done" /\ ret' = ReturnNil(TRUE, err)
    /\ UNCHANGED <<args, exclusiveGroups, commands, osArgs, i, parsedArgs, supplied>>

\* Parse, lines 255-261.
CheckGroups ==
    /\ pc = "groups"
    /\ LET err == validateExclusiveGroups(exclusiveGroups, 1, parsedArgs) IN
         IF err = NoErr
         THEN ret' = Return(parsedArgs, FALSE, NoErr)
         ELSE ret' = ReturnNil(TRUE, err)
    /\ pc' = "done"
    /\ UNCHANGED <<args, exclusiveGroups, commands, osArgs, i, parsedArgs, supplied>>

\* The host program declares its arguments and groups, then calls Parse
\* (pc = "build" until the call).
Next ==
    \/ pc = "build" /\ \E d \in DefPool : AddArgument(d)
    \/ pc = "build" /\ \E g \in GroupPool : AddExclusiveGroup(g)
    \/ pc = "build" /\ \E tokens \in TokenLists(Tokens, MaxArgs) : ParseHelp(tokens)
    \/ pc = "build" /\ \E tokens \in TokenLists(Tokens, MaxArgs) : ParseVersion(tokens)
    \/ pc = "build" /\ \E tokens \in TokenLists(Tokens, MaxArgs) : ParseBegin(tokens)
    \/ ScanStacked
    \/ ScanFlag
    \/ ScanEnd
    \/ CheckRequired
    \/ CheckGroups

Spec == Init /\ [][Next]_vars

(***************************************************************************)
(* Vocabulary of the claims, stated on the tokens and the schema and not   *)
(* through the operators of the parser.                                    *)
(***************************************************************************)
StartsWithDash(tok) == Len(tok) >= 1 /\ tok[1] = "-"

\* the token list is empty or holds -h, --help or --version at some position
ShortCircuit(tokens) ==
    \/ Len(tokens) = 0
    \/ \E k \in 1..Len(tokens) : tokens[k] \in {HelpShort, HelpLong, VersionLong}

ScanErrorKinds == {"UnknownArgument", "MissingValue", "TypeMismatch", "UnknownKind"}

\* Parse has returned, and every token matched and was coerced without error
Matched ==
    pc = "done" /\ ~ShortCircuit(osArgs) /\ ret.err.kind \notin ScanErrorKinds

RequiredSupplied == \A k \in 1..Len(args) : args[k].Required => args[k].Name \in supplied

OptionSet(group) == {group.Options[j] : j \in 1..Len(group.Options)}
SuppliedOf(group) == OptionSet(group) \cap supplied

\* the definition a flag token resolves to: the first, in declaration order,
\* whose -Short or --Long is the token (0 when there is none)
Aliased(def, tok) == tok = <<"-">> \o def.Short \/ tok = <<"-", "-">> \o def.Long
Resolves(tok) ==
    LET hits == {k \in 1..Len(args) : Aliased(args[k], tok)}
    IN  IF hits = {} THEN 0 ELSE CHOOSE k \in hits : \A h \in hits : k <= h

\* the scan is about to read the token at i
AtToken == pc = "scan" /\ i <= Len(osArgs)

\* no value follows the token at i
NoValueAfter == i = Len(osArgs) \/ StartsWithDash(osArgs[i + 1])

\* a base-10 signed integer: an optional sign and one or more digits
IsBase10(tok) ==
    LET body == IF tok # <<>> /\ tok[1] \in {"+", "-"} THEN Tail(tok) ELSE tok
    IN  /\ body # <<>>
        /\ \A k \in 1..Len(body) :
              body[k] \in {"0", "1", "2", "3", "4", "5", "6", "7", "8", "9"}

ZeroValue(dataType) ==
    CASE dataType = "bool" -> BoolV(FALSE)
      [] dataType = "int" -> IntV(0)
      [] dataType = "string" -> StrV(<<>>)
      [] dataType = "[]string" -> ListV(<<>>)

KnownKinds == {"bool", "int", "string", "[]string"}

(***************************************************************************)
(* C1.  When every token matched, a required definition (of any kind, with *)
(* or without a default) that no token supplied makes Parse return no      *)
(* result and a MissingRequired error naming a required option that was    *)
(* not supplied.                                                           *)
(***************************************************************************)
C1_MissingRequired ==
    (Matched /\ ~RequiredSupplied)
        => /\ ret.nilResult
           /\ ret.err.kind = "MissingRequired"
           /\ \E k \in 1..Len(args) :
                 /\ args[k].Required /\ args[k].Name \notin supplied
                 /\ ret.err.name = args[k].Name

C3_ThreeOutcomes ==
    pc = "done"
        => \/ ~ret.nilResult /\ ~ret.shouldExit /\ ret.err = NoErr
           \/ ret.nilResult /\ ret.shouldExit /\ ret.err # NoErr
           \/ ret.nilResult /\ ret.shouldExit /\ ret.err = NoErr /\ ShortCircuit(osArgs)

\* an error returned although the scan had already filled the working map
C3_Witness ==
    /\ pc = "done"
    /\ ret.err.kind \in ScanErrorKinds
    /\ parsedArgs # EmptyMap
    /\ ret.nilResult /\ ret.shouldExit

(***************************************************************************)
(* C4.  After a successful Parse every optional definition (of one of the  *)
(* four kinds) that no token supplied has an entry in the result: its      *)
(* declared default, or else the zero-value of its kind.                   *)
(***************************************************************************)
C4_DefaultsAndZeroValues ==
    (pc = "done" /\ ~ret.nilResult)
        => \A k \in 1..Len(args) :
              (/\ ~args[k].Required
               /\ args[k].Name \notin supplied
               /\ args[k].DataType \in KnownKinds)
                 => /\ Has(ret.result, args[k].Name)
                    /\ ret.result[args[k].Name] =
                          IF args[k].DefaultValue # NilV
                          THEN args[k].DefaultValue
                          ELSE ZeroValue(args[k].DataType)

GroupPasses(group) ==
    LET present == {j \in 1..Len(group.Options) : group.Options[j] \in DOMAIN parsedArgs}
    IN  Cardinality(present) <= 1 /\ (group.MustHave => Cardinality(present) = 1)

C6_OnlySuppliedCount ==
    (/\ Matched /\ RequiredSupplied
     /\ \A g \in 1..Len(exclusiveGroups) :
           Cardinality(SuppliedOf(exclusiveGroups[g])) <= 1)
        => ret.err.kind # "MutuallyExclusive"

(***************************************************************************)
(* C7.  When every token matched, every required option was supplied and   *)
(* every other group is satisfied by the supplied options, a mustHave      *)
(* group with none of its options supplied makes Parse return the          *)
(* MissingOneOf error naming the group's options.                          *)
(***************************************************************************)
C7_MissingOneOf ==
    (Matched /\ RequiredSupplied)
        => \A g \in 1..Len(exclusiveGroups) :
              (/\ exclusiveGroups[g].MustHave
               /\ SuppliedOf(exclusiveGroups[g]) = {}
               /\ \A h \in 1..Len(exclusiveGroups) :
                     exclusiveGroups[h] # exclusiveGroups[g]
                        => /\ Cardinality(SuppliedOf(exclusiveGroups[h])) <= 1
                           /\ exclusiveGroups[h].MustHave
                                 => SuppliedOf(exclusiveGroups[h]) # {})
                 => ret = ReturnNil(TRUE, ErrMissingOneOf(exclusiveGroups[g].Options))

(***************************************************************************)
(* C8.  When the scan reads a flag token that resolves to a non-Bool       *)
(* definition and the token is the last one or the next token starts with  *)
(* a dash, Parse returns no result, shouldExit and the MissingValue error  *)
(* naming the flag token as written.                                       *)
(***************************************************************************)
C8_MissingValue ==
    [][(/\ AtToken
        /\ Resolves(osArgs[i]) # 0
        /\ args[Resolves(osArgs[i])].DataType # "bool"
        /\ NoValueAfter)
          => /\ pc' = "done"
             /\ ret' = ReturnNil(TRUE, ErrMissingValue(osArgs[i]))]_vars

\* a token starting with a dash follows the flag of a non-Bool option
C8_Witness ==
    /\ pc = "done"
    /\ i < Len(osArgs)
    /\ StartsWithDash(osArgs[i + 1])
    /\ Resolves(osArgs[i]) # 0
    /\ args[Resolves(osArgs[i])].DataType \in {"int", "string", "[]string"}
    /\ ret = ReturnNil(TRUE, ErrMissingValue(osArgs[i]))

(***************************************************************************)
(* C9.  When the scan reads a flag token that resolves to an Int           *)
(* definition and the next token is a value (it does not start with a      *)
(* dash) that is not a base-10 signed integer, Parse returns no result and *)
(* the TypeMismatch error naming the option.                               *)
(***************************************************************************)
C9_TypeMismatch ==
    [][(/\ AtToken
        /\ Resolves(osArgs[i]) # 0
        /\ args[Resolves(osArgs[i])].DataType = "int"
        /\ ~NoValueAfter
        /\ ~IsBase10(osArgs[i + 1]))
          => /\ pc' = "done"
             /\ ret' = ReturnNil(TRUE, ErrTypeMismatch(args[Resolves(osArgs[i])].Name))]_vars

\* the value x was refused for the Int option b
C9_Witness ==
    /\ pc = "done"
    /\ i = 2
    /\ osArgs[1] = <<"-", "-", "b", "b">>
    /\ osArgs[2] = <<"x">>
    /\ ret = ReturnNil(TRUE, ErrTypeMismatch("b"))

(***************************************************************************)
(* C10.  An UnknownArgument error identifies the offending token, the one  *)
(* at which the scan stopped, wherever it stands in the token list.        *)
(***************************************************************************)
C10_UnknownNamesToken ==
    (pc = "done" /\ ret.err.kind = "UnknownArgument")
        => ret.err.tok = osArgs[i]

(***************************************************************************)
(* Vocabulary of the claims on whole token lists.                          *)
(***************************************************************************)
InsertAt(tokens, p, tok) ==
    SubSeq(tokens, 1, p - 1) \o <<tok>> \o SubSeq(tokens, p, Len(tokens))
ReplaceAt(tokens, p, toks) ==
    SubSeq(tokens, 1, p - 1) \o toks \o SubSeq(tokens, p + 1, Len(tokens))

\* the places of a token list where a flag may be added: in front of a
\* token that starts with a dash, and at the end
FlagPlaces(tokens) ==
    {p \in 1..(Len(tokens) + 1) : p = Len(tokens) + 1 \/ StartsWithDash(tokens[p])}

FlagForms(def) == {<<"-">> \o def.Short, <<"-", "-">> \o def.Long}

\* the positions of the tokens that are a flag of the definition at k
Occurrences(tokens, k) ==
    {q \in 1..Len(tokens) : tokens[q] \in FlagForms(args[k]) /\ Resolves(tokens[q]) = k}

(***************************************************************************)
(* C13.  For every Bool option whose flag stands once in the token list,   *)
(* the list with a second occurrence of the flag (short or long form)      *)
(* added at any place where a flag may appear has the same Parse outcome   *)
(* (result map, shouldExit and error) as the list itself.                  *)
(***************************************************************************)
C13_BoolRepeatSameOutcome ==
    pc = "done"
        => \A k \in 1..Len(args) :
              (args[k].DataType = "bool" /\ Cardinality(Occurrences(osArgs, k)) = 1)
                 => \A p \in FlagPlaces(osArgs) :
                       \A f \in FlagForms(args[k]) :
                          Resolves(f) = k
                             => Parse(args, exclusiveGroups, InsertAt(osArgs, p, f)) = ret

\* the token -xy stands at p, and both characters are short aliases of Bool
\* definitions
StackedPairAt(p) ==
    /\ Len(osArgs[p]) = 3
    /\ osArgs[p][1] = "-" /\ osArgs[p][2] # "-"
    /\ \E k \in 1..Len(args) :
          args[k].DataType = "bool" /\ args[k].Short = <<osArgs[p][2]>>
    /\ \E k \in 1..Len(args) :
          args[k].DataType = "bool" /\ args[k].Short = <<osArgs[p][3]>>

(***************************************************************************)
(* C14.  When the stacked token -xy of two Bool short aliases stands in    *)
(* the token list, the list with that token replaced by -x -y, and the     *)
(* list with it replaced by -y -x, have the same Parse outcome (result     *)
(* map, shouldExit and error) as the list itself.                          *)
(***************************************************************************)
C14_StackedEquivalent ==
    pc = "done"
        => \A p \in 1..Len(osArgs) :
              StackedPairAt(p)
                 => LET x == <<"-", osArgs[p][2]>>
                        y == <<"-", osArgs[p][3]>>
                    IN  /\ Parse(args, exclusiveGroups, ReplaceAt(osArgs, p, <<x, y>>)) = ret
                        /\ Parse(args, exclusiveGroups, ReplaceAt(osArgs, p, <<y, x>>)) = ret

(***************************************************************************)
(* C16.  With no required option in the schema, Parse on the empty token   *)
(* list returns no error, shouldExit = false and a map that holds, for     *)
(* every definition, its declared default or else the zero-value of its    *)
(* kind.                                                                   *)
(***************************************************************************)
C16_EmptyListDefaults ==
    (/\ pc = "done"
     /\ osArgs = <<>>
     /\ \A k \in 1..Len(args) : ~args[k].Required)
        => /\ ~ret.nilResult /\ ~ret.shouldExit /\ ret.err = NoErr
           /\ \A k \in 1..Len(args) :
                 args[k].DataType \in KnownKinds
                    => /\ Has(ret.result, args[k].Name)
                       /\ ret.result[args[k].Name] =
                             IF args[k].DefaultValue # NilV
                             THEN args[k].DefaultValue
                             ELSE ZeroValue(args[k].DataType)

(***************************************************************************)
(* C17.  With a required option in the schema, Parse on the empty token    *)
(* list returns shouldExit = true and the MissingRequired error ('missing  *)
(* required global argument') naming a required option.                    *)
(***************************************************************************)
C17_EmptyListMissingRequired ==
    (/\ pc = "done"
     /\ osArgs = <<>>
     /\ \E k \in 1..Len(args) : args[k].Required)
        => /\ ret.shouldExit
           /\ ret.err.kind = "MissingRequired"
           /\ \E k \in 1..Len(args) : args[k].Required /\ ret.err.name = args[k].Name

(***************************************************************************)
(* Vocabulary of C15: schemas with unique aliases, and token lists made of *)
(* declared flags, each non-Bool flag followed by one well-formed value.   *)
(***************************************************************************)
UniqueAliases ==
    /\ \A k \in 1..Len(args) : Len(args[k].Short) = 1
    /\ \A k, h \in 1..Len(args) : k # h => FlagForms(args[k]) \cap FlagForms(args[h]) = {}

DigitNum ==
    [c \in {"0", "1", "2", "3", "4", "5", "6", "7", "8", "9"} |->
        CASE c = "0" -> 0 [] c = "1" -> 1 [] c = "2" -> 2 [] c = "3" -> 3
          [] c = "4" -> 4 [] c = "5" -> 5 [] c = "6" -> 6 [] c = "7" -> 7
          [] c = "8" -> 8 [] c = "9" -> 9]

\* the integer denoted by an unsigned numeral of at most 9 digits
RECURSIVE NumeralValue(_)
NumeralValue(s) ==
    IF s = <<>> THEN 0
    ELSE 10 * NumeralValue(SubSeq(s, 1, Len(s) - 1)) + DigitNum[s[Len(s)]]

\* a value token for an option of the given kind
WellFormedValue(tok, dataType) ==
    /\ ~StartsWithDash(tok)
    /\ dataType = "int"
          => /\ Len(tok) \in 1..9
             /\ \A k \in 1..Len(tok) : tok[k] \in DOMAIN DigitNum

\* the tokens from p on are declared flags, each non-Bool flag with a value
RECURSIVE WellFormedFrom(_, _)
WellFormedFrom(tokens, p) ==
    IF p > Len(tokens) THEN TRUE
    ELSE LET k == Resolves(tokens[p]) IN
        /\ k # 0
        /\ args[k].DataType \in KnownKinds
        /\ IF args[k].DataType = "bool" THEN WellFormedFrom(tokens, p + 1)
           ELSE /\ p + 1 <= Len(tokens)
                /\ WellFormedValue(tokens[p + 1], args[k].DataType)
                /\ WellFormedFrom(tokens, p + 2)

\* the value the token list gives to the definition at k: that of the last
\* occurrence of its flag
SuppliedValue(tokens, k) ==
    LET last == CHOOSE q \in Occurrences(tokens, k) :
                    \A r \in Occurrences(tokens, k) : r <= q
    IN  CASE args[k].DataType = "bool" -> BoolV(TRUE)
          [] args[k].DataType = "int" -> IntV(NumeralValue(tokens[last + 1]))
          [] args[k].DataType = "string" -> StrV(tokens[last + 1])
          [] args[k].DataType = "[]string" -> ListV(<<tokens[last + 1]>>)

HoldsSuppliedValues(m) ==
    \A k \in 1..Len(args) :
       Occurrences(osArgs, k) # {}
          => Has(m, args[k].Name) /\ m[args[k].Name] = SuppliedValue(osArgs, k)

MaxListArgs == 4    \* longest token list given to Parse in SpecList

ListDefPool ==
    {Argument("a", ShortA, LongA, "bool", FALSE, NilV),
     Argument("a", ShortA, LongA, "string", FALSE, NilV),
     Argument("b", ShortB, LongB, "[]string", FALSE, NilV),
     Argument("b", ShortB, LongB, "int", FALSE, NilV),
     Argument("b", ShortB, LongB, "string", FALSE, NilV),
     Argument("c", ShortA, LongC, "string", FALSE, NilV)}

ListTokens == {<<"-", "a">>, <<"-", "-", "b", "b">>, <<"5">>, <<"7">>, <<"x">>}

NextList ==
    \/ pc = "build" /\ \E d \in ListDefPool : AddArgument(d)
    \/ pc = "build" /\ \E tokens \in TokenLists(ListTokens, MaxListArgs) : ParseHelp(tokens)
    \/ pc = "build" /\ \E tokens \in TokenLists(ListTokens, MaxListArgs) : ParseBegin(tokens)
    \/ ScanFlag
    \/ ScanEnd
    \/ CheckRequired
    \/ CheckGroups

SpecList == Init /\ [][NextList]_vars

\* the number of tokens after position p up to the end of the list or to
\* the next token that starts with a dash
RunLength(tokens, p) ==
    CHOOSE n \in 0..(Len(tokens) - p) :
       /\ \A j \in 1..n : ~StartsWithDash(tokens[p + j])
       /\ p + n = Len(tokens) \/ StartsWithDash(tokens[p + n + 1])

CaptureRun(tokens, p) == SubSeq(tokens, p + 1, p + RunLength(tokens, p))

(***************************************************************************)
(* C11.  When the scan reads the flag of a []string option that is         *)
(* followed by k >= 1 tokens not starting with a dash and then by the end  *)
(* of the list or by a token starting with a dash, the step stores exactly *)
(* those k tokens, in input order and with repetitions kept, as the value  *)
(* of the option, and the scan goes on at the token after them.            *)
(***************************************************************************)
C11_ListCapture ==
    [][(/\ AtToken
        /\ Resolves(osArgs[i]) # 0
        /\ args[Resolves(osArgs[i])].DataType = "[]string"
        /\ ~NoValueAfter)
          => /\ pc' = "scan"
             /\ i' = i + RunLength(osArgs, i) + 1
             /\ Has(parsedArgs', args[Resolves(osArgs[i])].Name)
             /\ parsedArgs'[args[Resolves(osArgs[i])].Name] = ListV(CaptureRun(osArgs, i))
             /\ ret' = ret]_vars

\* two equal tokens captured in order, the scan stopped at the flag after
\* them
C11_Witness ==
    /\ pc = "scan"
    /\ Len(osArgs) = 4
    /\ i = 4
    /\ osArgs[1] = <<"-", "-", "b", "b">>
    /\ osArgs[2] = <<"x">> /\ osArgs[3] = <<"x">>
    /\ StartsWithDash(osArgs[4])
    /\ Has(parsedArgs, "b")
    /\ parsedArgs["b"] = ListV(<< <<"x">>, <<"x">> >>)

\* the value the last occurrence of the flag of the definition at k gives
LastOccurrenceValue(tokens, k) ==
    LET last == CHOOSE q \in Occurrences(tokens, k) :
                    \A r \in Occurrences(tokens, k) : r <= q
    IN  CASE args[k].DataType = "int" -> IntV(NumeralValue(tokens[last + 1]))
          [] args[k].DataType = "string" -> StrV(tokens[last + 1])
          [] args[k].DataType = "[]string" -> ListV(CaptureRun(tokens, last))

(***************************************************************************)
(* C12.  In the result of a successful Parse, an Int, String or []string   *)
(* option whose flag stands more than once in the token list has the value *)
(* of the last occurrence: the later value in place of the earlier, and    *)
(* for a []string the tokens captured by the last occurrence alone.        *)
(***************************************************************************)
C12_LastOccurrenceWins ==
    (pc = "done" /\ ~ret.nilResult)
        => \A k \in 1..Len(args) :
              (/\ args[k].DataType \in {"int", "string", "[]string"}
               /\ Cardinality(Occurrences(osArgs, k)) >= 2)
                 => /\ Has(ret.result, args[k].Name)
                    /\ ret.result[args[k].Name] = LastOccurrenceValue(osArgs, k)

\* the []string option b given twice: the second capture alone is the value
C12_Witness ==
    /\ pc = "done"
    /\ ~ret.nilResult
    /\ osArgs = << <<"-", "-", "b", "b">>, <<"x">>, <<"-", "-", "b", "b">>, <<"5">> >>
    /\ Has(ret.result, "b")
    /\ ret.result["b"] = ListV(<< <<"5">> >>)

(***************************************************************************)
(* The subcommand-capable Parser (src/unnamed/part_007).  Its Parse        *)
(* returns (map, error); its parseArguments loops over the definitions     *)
(* and, for each of them, over all the tokens.                             *)
(*   HelpRequested            "help requested or no arguments were ..."    *)
(*   MissingRequiredArgument  "missing required argument: %s"       name   *)
(*   MissingRequiredSub       "missing required argument for subcommand    *)
(*                             [%s]: %s"                            dt,name*)
(*   UnknownSubcommand        "unknown subcommand/subflag sequence: %s"    *)
(*                                                                  opts   *)
(***************************************************************************)
ErrHelpRequested == Err("HelpRequested", <<>>, "", "", <<>>)
ErrMissingRequiredArgument(name) == Err("MissingRequiredArgument", <<>>, name, "", <<>>)
ErrMissingRequiredSub(cmdName, name) == Err("MissingRequiredSub", <<>>, name, cmdName, <<>>)
ErrUnknownSubcommand(remainingArgs) == Err("UnknownSubcommand", <<>>, "", "", remainingArgs)

Command(name, arguments) == [Name |-> name, Arguments |-> arguments]

\* the characters of a command name, to compare it with a token
Chars(name) ==
    CASE name = "build" -> <<"b", "u", "i", "l", "d">>
      [] name = "deploy" -> <<"d", "e", "p", "l", "o", "y">>

CmdReturn(result, err) == [nilResult |-> FALSE, result |-> result, err |-> err]
CmdReturnNil(err) == [nilResult |-> TRUE, result |-> EmptyMap, err |-> err]

\* part_007, parseArguments: the inner loop, over the tokens from index k,
\* for one definition.  The token after a non-Bool flag is taken as its
\* value whatever it is.
RECURSIVE cmdScanTokens(_, _, _, _, _)
cmdScanTokens(def, tokens, k, m, found) ==
    IF k > Len(tokens) THEN [m |-> m, found |-> found, err |-> NoErr]
    ELSE IF ~flagMatches(def, tokens[k])
    THEN cmdScanTokens(def, tokens, k + 1, m, found)
    ELSE IF def.DataType = "bool"
    THEN cmdScanTokens(def, tokens, k + 1, Put(m, def.Name, BoolV(TRUE)), TRUE)
    ELSE IF ~(k + 1 <= Len(tokens))
    THEN [m |-> m, found |-> found, err |-> ErrMissingValue(tokens[k])]
    ELSE LET rawValue == tokens[k + 1] IN
      CASE def.DataType = "int" ->
             IF Atoi(rawValue).ok
             THEN cmdScanTokens(def, tokens, k + 2,
                                Put(m, def.Name, IntV(Atoi(rawValue).n)), TRUE)
             ELSE [m |-> m, found |-> found, err |-> ErrTypeMismatch(def.Name)]
        [] def.DataType = "string" ->
             cmdScanTokens(def, tokens, k + 2, Put(m, def.Name, StrV(rawValue)), TRUE)
        [] def.DataType = "[]string" ->
             cmdScanTokens(def, tokens, listEnd(tokens, k + 1) + 1,
                           Put(m, def.Name,
                               ListV(SubSeq(tokens, k + 1, listEnd(tokens, k + 1)))),
                           TRUE)
        [] OTHER ->
             [m |-> m, found |-> found, err |-> ErrUnknownKind(def.DataType, def.Name)]

\* part_007, parseArguments: the value stored for a definition not found
cmdZeroValue(def, m) ==
    CASE def.DataType = "int" -> Put(m, def.Name, IntV(0))
      [] def.DataType = "string" -> Put(m, def.Name, StrV(<<>>))
      [] def.DataType = "[]string" -> Put(m, def.Name, NilV)
      [] def.DataType = "bool" -> Put(m, def.Name, BoolV(FALSE))
      [] OTHER -> m

\* Variant: a required definition that is not found gets its zero-value.
RECURSIVE cmdParseArgumentsNoRequired(_, _, _, _)
cmdParseArgumentsNoRequired(defs, d, tokens, m) ==
    IF d > Len(defs) THEN [m |-> m, err |-> NoErr]
    ELSE LET r == cmdScanTokens(defs[d], tokens, 1, m, FALSE) IN
      IF r.err # NoErr THEN [m |-> r.m, err |-> r.err]
      ELSE IF ~r.found
      THEN cmdParseArgumentsNoRequired(defs, d + 1, tokens, cmdZeroValue(defs[d], r.m))
      ELSE cmdParseArgumentsNoRequired(defs, d + 1, tokens, r.m)

\* part_007, parseArguments: the outer loop, over the definitions from d
RECURSIVE cmdParseArguments(_, _, _, _)
cmdParseArguments(defs, d, tokens, m) ==
    IF d > Len(defs) THEN [m |-> m, err |-> NoErr]
    ELSE LET r == cmdScanTokens(defs[d], tokens, 1, m, FALSE) IN
      IF r.err # NoErr THEN [m |-> r.m, err |-> r.err]
      ELSE IF defs[d].Required /\ ~r.found
      THEN [m |-> r.m, err |-> ErrMissingRequiredArgument(defs[d].Name)]
      ELSE IF ~r.found
      THEN cmdParseArguments(defs, d + 1, tokens, cmdZeroValue(defs[d], r.m))
      ELSE cmdParseArguments(defs, d + 1, tokens, r.m)

\* part_007, Parse: the required arguments of the subcommand just parsed
RECURSIVE cmdValidateRequired(_, _, _, _)
cmdValidateRequired(cmdName, defs, d, m) ==
    IF d > Len(defs) THEN NoErr
    ELSE IF defs[d].Required /\ ~Has(m, defs[d].Name)
    THEN ErrMissingRequiredSub(cmdName, defs[d].Name)
    ELSE cmdValidateRequired(cmdName, defs, d + 1, m)

\* Variant: no command is ever taken as invoked.
cmdDispatchNone(cmds, c, tokens, m) ==
    [m |-> m, remainingArgs |-> tokens, err |-> NoErr]

\* part_007, Parse: the loop over p.commands from index c; remainingArgs is
\* the token list until a command is found, and its tail from then on.
RECURSIVE cmdDispatch(_, _, _, _)
cmdDispatch(cmds, c, tokens, m) ==
    IF c > Len(cmds) THEN [m |-> m, remainingArgs |-> tokens, err |-> NoErr]
    ELSE IF tokens[1] # Chars(cmds[c].Name) \/ HasPrefix(tokens[1], Dash)
    THEN cmdDispatch(cmds, c + 1, tokens, m)
    ELSE LET sub == cmdParseArguments(cmds[c].Arguments, 1, Tail(tokens), EmptyMap)
             req == cmdValidateRequired(cmds[c].Name, cmds[c].Arguments, 1, sub.m)
         IN  IF sub.err # NoErr
             THEN [m |-> m, remainingArgs |-> Tail(tokens), err |-> sub.err]
             ELSE [m |-> Put(m, cmds[c].Name, sub.m),
                   remainingArgs |-> Tail(tokens), err |-> req]

\* part_007, Parse as one function: the map it built and what it returns.
CmdParse(defs, cmds, tokens) ==
    IF Len(tokens) = 0 \/ containsHelpArgument(tokens)
    THEN [m |-> EmptyMap, ret |-> CmdReturnNil(ErrHelpRequested)]
    ELSE LET g == cmdParseArguments(defs, 1, tokens, EmptyMap) IN
      IF g.err # NoErr
      THEN [m |-> g.m,
            ret |-> IF g.err.kind = "UnknownArgument"
                    THEN CmdReturnNil(ErrUnknownArgument(tokens[1]))
                    ELSE CmdReturnNil(g.err)]
      ELSE LET s == cmdDispatch(cmds, 1, tokens, g.m) IN
        IF s.err # NoErr THEN [m |-> s.m, ret |-> CmdReturnNil(s.err)]
        ELSE IF Len(s.remainingArgs) > 0 /\ ~HasPrefix(s.remainingArgs[1], Dash)
        THEN [m |-> s.m, ret |-> CmdReturnNil(ErrUnknownSubcommand(s.remainingArgs))]
        ELSE IF validateRequired(defs, 1, s.m) # NoErr
        THEN [m |-> s.m, ret |-> CmdReturnNil(validateRequired(defs, 1, s.m))]
        ELSE [m |-> s.m, ret |-> CmdReturn(s.m, NoErr)]

(***************************************************************************)
(* The specification of the subcommand-capable Parser: the host program    *)
(* declares top-level arguments and commands, fills the Arguments of its   *)
(* commands (main.go:18-30), then calls Parse once.                        *)
(***************************************************************************)
MaxCmdArgs == 3     \* longest token list given to Parse in SpecCmd
MaxCommands == 2    \* most AddCommand calls made on the parser

\* the top-level option a and the option c of the commands share -a
CmdDefPool ==
    {Argument("a", ShortA, LongA, "string", TRUE, NilV),
     Argument("a", ShortA, LongA, "int", FALSE, NilV)}

CmdNames == {"build", "deploy"}

SubDefPool(cmdName) ==
    IF cmdName = "build"
    THEN {Argument("c", ShortA, LongC, "string", TRUE, NilV),
          Argument("c", ShortA, LongC, "string", FALSE, NilV),
          Argument("b", ShortB, LongB, "int", FALSE, NilV)}
    ELSE {Argument("c", ShortA, LongC, "string", TRUE, NilV)}

CmdTokens ==
    {Chars("build"), Chars("deploy"), <<"-", "a">>, <<"-", "-", "c", "c">>,
     <<"-", "-", "b", "b">>, <<"5">>, <<"x">>}

\* NewParser of part_007 with no Parse call made yet
InitCmd ==
    /\ args = <<>>
    /\ exclusiveGroups = <<>>
    /\ commands = <<>>
    /\ osArgs = <<>>
    /\ pc = "build"
    /\ i = 1
    /\ parsedArgs = EmptyMap
    /\ supplied = {}
    /\ ret = CmdReturnNil(NoErr)

\* The host program gives each command a name of its own.
AddCommand(name) ==
    /\ Len(commands) < MaxCommands
    /\ \A c \in 1..Len(commands) : commands[c].Name # name
    /\ commands' = Append(commands, Command(name, <<>>))
    /\ UNCHANGED <<args, exclusiveGroups, osArgs, pc, i, parsedArgs, supplied, ret>>

\* cmd.Arguments = append(cmd.Arguments, ...), with names unique in the command
AppendCommandArgument(c, d) ==
    /\ Len(commands[c].Arguments) < MaxDefs
    /\ \A k \in 1..Len(commands[c].Arguments) : commands[c].Arguments[k].Name # d.Name
    /\ commands' = [commands EXCEPT ![c].Arguments = Append(@, d)]
    /\ UNCHANGED <<args, exclusiveGroups, osArgs, pc, i, parsedArgs, supplied, ret>>

\* part_007, Parse: no token or a help token; PrintHelp sorts p.args.
CmdParseHelp(tokens) ==
    /\ Len(tokens) = 0 \/ containsHelpArgument(tokens)
    /\ osArgs' = tokens
    /\ args' = sortByName(args)
    /\ parsedArgs' = CmdParse(args, commands, tokens).m
    /\ ret' = CmdParse(args, commands, tokens).ret
    /\ pc' = "done"
    /\ UNCHANGED <<exclusiveGroups, commands, i, supplied>>

\* part_007, Parse: the top-level arguments, the subcommand, the validation.
CmdParseRun(tokens) ==
    /\ ~(Len(tokens) = 0 \/ containsHelpArgument(tokens))
    /\ osArgs' = tokens
    /\ parsedArgs' = CmdParse(args, commands, tokens).m
    /\ ret' = CmdParse(args, commands, tokens).ret
    /\ pc' = "done"
    /\ UNCHANGED <<args, exclusiveGroups, commands, i, supplied>>

NextCmd ==
    \/ pc = "build" /\ \E d \in CmdDefPool : AddArgument(d)
    \/ pc = "build" /\ \E name \in CmdNames : AddCommand(name)
    \/ pc = "build" /\ \E c \in 1..Len(commands) :
                          \E d \in SubDefPool(commands[c].Name) : AppendCommandArgument(c, d)
    \/ pc = "build" /\ \E tokens \in TokenLists(CmdTokens, MaxCmdArgs) : CmdParseHelp(tokens)
    \/ pc = "build" /\ \E tokens \in TokenLists(CmdTokens, MaxCmdArgs) : CmdParseRun(tokens)

SpecCmd == InitCmd /\ [][NextCmd]_vars

(***************************************************************************)
(* Vocabulary of the claims on subcommands.                                *)
(***************************************************************************)
\* the command selected by the token list: its name is the first token
Selected(c) == osArgs # <<>> /\ osArgs[1] = Chars(commands[c].Name)

\* the definition of defs a flag token resolves to (0 when there is none)
ResolvesIn(defs, tok) ==
    LET hits == {k \in 1..Len(defs) : Aliased(defs[k], tok)}
    IN  IF hits = {} THEN 0 ELSE CHOOSE k \in hits : \A h \in hits : k <= h

OccurrencesIn(defs, tokens, k) ==
    {q \in 1..Len(tokens) : tokens[q] \in FlagForms(defs[k]) /\ ResolvesIn(defs, tokens[q]) = k}

\* the tokens from p on are flags of defs, each non-Bool flag with a value
RECURSIVE WellFormedIn(_, _, _)
WellFormedIn(defs, tokens, p) ==
    IF p > Len(tokens) THEN TRUE
    ELSE LET k == ResolvesIn(defs, tokens[p]) IN
        /\ k # 0
        /\ defs[k].DataType \in KnownKinds
        /\ IF defs[k].DataType = "bool" THEN WellFormedIn(defs, tokens, p + 1)
           ELSE /\ p + 1 <= Len(tokens)
                /\ WellFormedValue(tokens[p + 1], defs[k].DataType)
                /\ WellFormedIn(defs, tokens, p + 2)

\* no flag token is a flag of two definitions of defs
UniqueAliasesIn(defs) ==
    /\ \A k \in 1..Len(defs) : Len(defs[k].Short) = 1
    /\ \A k, h \in 1..Len(defs) : k # h => FlagForms(defs[k]) \cap FlagForms(defs[h]) = {}

\* the required definitions of defs that no token supplies
Unsupplied(defs, tokens) ==
    {k \in 1..Len(defs) : defs[k].Required /\ OccurrencesIn(defs, tokens, k) = {}}

\* the tokens after the name of the command at c are valid for its definitions
SubValid(c) ==
    /\ WellFormedIn(commands[c].Arguments, Tail(osArgs), 1)
    /\ Unsupplied(commands[c].Arguments, Tail(osArgs)) = {}

\* the nested map holds the options the tokens supply to the command at c
NestedHolds(c, nested) ==
    LET defs == commands[c].Arguments
        rest == Tail(osArgs)
    IN  \A k \in 1..Len(defs) :
           OccurrencesIn(defs, rest, k) # {}
              => LET last == CHOOSE q \in OccurrencesIn(defs, rest, k) :
                                 \A r \in OccurrencesIn(defs, rest, k) : r <= q
                 IN  /\ defs[k].Name \in DOMAIN nested
                     /\ nested[defs[k].Name] =
                           CASE defs[k].DataType = "bool" -> BoolV(TRUE)
                             [] defs[k].DataType = "int" -> IntV(NumeralValue(rest[last + 1]))
                             [] defs[k].DataType = "string" -> StrV(rest[last + 1])
                             [] defs[k].DataType = "[]string" -> ListV(<<rest[last + 1]>>)

\* the commands that have an entry in the map
CommandKeys(m) == {c \in 1..Len(commands) : commands[c].Name \in DOMAIN m}

\* an error raised by a top-level definition
TopLevelError(err) ==
    /\ err.kind \in {"MissingRequiredArgument", "MissingValue", "TypeMismatch", "UnknownKind"}
    /\ \E k \in 1..Len(args) : err.name = args[k].Name \/ err.tok \in FlagForms(args[k])

NoCommandEntryUnlessSelected ==
    ~ret.nilResult
       => /\ Cardinality(CommandKeys(ret.result)) <= 1
          /\ \A c \in CommandKeys(ret.result) : Selected(c)

WithOptional(cmds, c) ==
    [cmds EXCEPT ![c].Arguments =
        [k \in DOMAIN @ |-> [@[k] EXCEPT !.Required = FALSE]]]

MissingRequiredKinds == {"MissingRequired", "MissingRequiredArgument", "MissingRequiredSub"}

\* the error is MissingRequired for a required option of the command at c
\* that the tokens after the command name do not supply
MissingRequiredOf(c, err) ==
    /\ err.kind \in MissingRequiredKinds
    /\ \E k \in Unsupplied(commands[c].Arguments, Tail(osArgs)) :
          err.name = commands[c].Arguments[k].Name

\* a token list that does not select the command at c has the outcome it
\* has when no option of that command is required
NotSelectedNotEnforced ==
    \A c \in 1..Len(commands) :
       ~Selected(c) => CmdParse(args, WithOptional(commands, c), osArgs).ret = ret

NumCallers == 2     \* goroutines calling Parse on the one Parser
MaxConcArgs == 2    \* longest token list given to a Parse call in SpecConc

Callers == 1..NumCallers

ConcDefPool ==
    {Argument("a", ShortA, LongA, "bool", FALSE, NilV),
     Argument("b", ShortB, LongB, "string", TRUE, NilV),
     Argument("c", ShortA, LongC, "bool", FALSE, NilV)}

ConcTokens == {HelpShort, <<"-", "a">>, <<"-", "-", "b", "b">>, <<"x">>}

\* adjacent places of the list whose names are out of order
outOfOrder(defs) ==
    {k \in 1..(Len(defs) - 1) : nameLess(defs[k + 1].Name, defs[k].Name)}

\* the list after the next swap of the insertion sort
sortSwap(defs) ==
    LET k == CHOOSE k \in outOfOrder(defs) : \A h \in outOfOrder(defs) : k <= h
    IN  [defs EXCEPT ![k] = defs[k + 1], ![k + 1] = defs[k]]

\* NewParser, and no goroutine has called Parse yet
InitConc ==
    /\ args = <<>>
    /\ exclusiveGroups = <<>>
    /\ commands = <<>>
    /\ osArgs = [c \in Callers |-> <<>>]
    /\ pc = [c \in Callers |-> "idle"]
    /\ i = [c \in Callers |-> 1]
    /\ parsedArgs = [c \in Callers |-> EmptyMap]
    /\ supplied = [c \in Callers |-> {}]
    /\ ret = [c \in Callers |-> ReturnNil(FALSE, NoErr)]

\* Parse, lines 224-225: no token or a help token; PrintHelp is entered.
ConcParseHelp(c, tokens) ==
    /\ pc[c] = "idle"
    /\ Len(tokens) = 0 \/ containsHelpArgument(tokens)
    /\ osArgs' = [osArgs EXCEPT ![c] = tokens]
    /\ pc' = [pc EXCEPT ![c] = "sort"]
    /\ UNCHANGED <<args, exclusiveGroups, commands, i, parsedArgs, supplied, ret>>

\* PrintHelp, lines 295-297: one swap of sort.Slice on p.args.
ConcSortSwap(c) ==
    /\ pc[c] = "sort"
    /\ outOfOrder(args) # {}
    /\ args' = sortSwap(args)
    /\ UNCHANGED <<exclusiveGroups, commands, osArgs, pc, i, parsedArgs, supplied, ret>>

\* PrintHelp, lines 299-301, and Parse, line 226: the list is printed and
\* the call returns.
ConcPrintHelpEnd(c) ==
    /\ pc[c] = "sort"
    /\ outOfOrder(args) = {}
    /\ ret' = [ret EXCEPT ![c] = ReturnNil(TRUE, NoErr)]
    /\ pc' = [pc EXCEPT ![c] = "done"]
    /\ UNCHANGED <<args, exclusiveGroups, commands, osArgs, i, parsedArgs, supplied>>

\* Parse, lines 229-238: no help and no version token; parseArguments is
\* called on an empty map.
ConcParseBegin(c, tokens) ==
    /\ pc[c] = "idle"
    /\ ~(Len(tokens) = 0 \/ containsHelpArgument(tokens))
    /\ ~requestedVersion(tokens)
    /\ osArgs' = [osArgs EXCEPT ![c] = tokens]
    /\ i' = [i EXCEPT ![c] = 1]
    /\ parsedArgs' = [parsedArgs EXCEPT ![c] = EmptyMap]
    /\ pc' = [pc EXCEPT ![c] = "scan"]
    /\ UNCHANGED <<args, exclusiveGroups, commands, supplied, ret>>

\* One iteration of the loop of parseArguments, on p.args as it is now.
ConcScanToken(c) ==
    /\ pc[c] = "scan"
    /\ i[c] <= Len(osArgs[c])
    /\ LET r == parseToken(args, osArgs[c], i[c], parsedArgs[c]) IN
         /\ i' = [i EXCEPT ![c] = r.i]
         /\ parsedArgs' = [parsedArgs EXCEPT ![c] = r.m]
         /\ IF r.err = NoErr
            THEN UNCHANGED <<pc, ret>>
            ELSE /\ pc' = [pc EXCEPT ![c] = "done"]
                 /\ ret' = [ret EXCEPT ![c] = parseError(r.err, osArgs[c])]
    /\ UNCHANGED <<args, exclusiveGroups, commands, osArgs, supplied>>

\* The end of parseArguments: the defaults, read from p.args.
ConcScanEnd(c) ==
    /\ pc[c] = "scan"
    /\ i[c] > Len(osArgs[c])
    /\ supplied' = [supplied EXCEPT ![c] = DOMAIN parsedArgs[c]]
    /\ parsedArgs' = [parsedArgs EXCEPT ![c] = applyDefaults(args, 1, parsedArgs[c])]
    /\ pc' = [pc EXCEPT ![c] = "required"]
    /\ UNCHANGED <<args, exclusiveGroups, commands, osArgs, i, ret>>

\* Parse, lines 246-253, on p.args.
ConcCheckRequired(c) ==
    /\ pc[c] = "required"
    /\ LET err == validateRequired(args, 1, parsedArgs[c]) IN
         IF err = NoErr
         THEN pc' = [pc EXCEPT ![c] = "groups"] /\ UNCHANGED ret
         ELSE /\ pc' = [pc EXCEPT ![c] = "done"]
              /\ ret' = [ret EXCEPT ![c] = ReturnNil(TRUE, err)]
    /\ UNCHANGED <<args, exclusiveGroups, commands, osArgs, i, parsedArgs, supplied>>

\* Parse, lines 255-261.
ConcCheckGroups(c) ==
    /\ pc[c] = "groups"
    /\ LET err == validateExclusiveGroups(exclusiveGroups, 1, parsedArgs[c]) IN
         IF err = NoErr
         THEN ret' = [ret EXCEPT ![c] = Return(parsedArgs[c], FALSE, NoErr)]
         ELSE ret' = [ret EXCEPT ![c] = ReturnNil(TRUE, err)]
    /\ pc' = [pc EXCEPT ![c] = "done"]
    /\ UNCHANGED <<args, exclusiveGroups, commands, osArgs, i, parsedArgs, supplied>>

\* no goroutine has called Parse yet
NoCallStarted == \A c \in Callers : pc[c] = "idle"

NextConc ==
    \/ NoCallStarted /\ \E d \in ConcDefPool : AddArgument(d)
    \/ \E c \in Callers : pc[c] = "idle" /\
          \E tokens \in TokenLists(ConcTokens, MaxConcArgs) : ConcParseHelp(c, tokens)
    \/ \E c \in Callers : pc[c] = "idle" /\
          \E tokens \in TokenLists(ConcTokens, MaxConcArgs) : ConcParseBegin(c, tokens)
    \/ \E c \in Callers : ConcSortSwap(c)
    \/ \E c \in Callers : ConcPrintHelpEnd(c)
    \/ \E c \in Callers : ConcScanToken(c)
    \/ \E c \in Callers : ConcScanEnd(c)
    \/ \E c \in Callers : ConcCheckRequired(c)
    \/ \E c \in Callers : ConcCheckGroups(c)

SpecConc == InitConc /\ [][NextConc]_vars

(***************************************************************************)
(* Vocabulary of the claim on concurrent calls.                            *)
(***************************************************************************)
\* the call c is at a point from which its next step writes the list
WritesDefinitions(c) == pc[c] = "sort" /\ args # sortByName(args)

\* the call c is at a point from which its next step reads the list
ReadsDefinitions(c) == pc[c] \in {"sort", "scan", "required"}

(***************************************************************************)
(* C20.  Parse calls running concurrently on one Parser, the help path     *)
(* included, never write state that another call reads or writes: no       *)
(* state is reached in which one call is about to modify the definition    *)
(* list while another call is about to read or modify it.                  *)
(***************************************************************************)
C20_NoSharedWrite ==
    \A c, d \in Callers :
        c # d => ~(WritesDefinitions(c) /\ ReadsDefinitions(d))

(***************************************************************************)
(* C26.  Parse leaves the schema of the Parser unchanged on every path     *)
(* (success, error, help, version): no step of a Parse call changes the    *)
(* definitions, their order in the definition list, or the exclusive       *)
(* groups.                                                                 *)
(***************************************************************************)
C26_SchemaUnchanged ==
    [][pc' # "build" => (args' = args /\ exclusiveGroups' = exclusiveGroups)]_vars

(***************************************************************************)
(* SpecSeq: goparse.go with Parse called any number of times on the one    *)
(* Parser, each call in one step.  The host program declares its           *)
(* arguments, then calls Parse again and again with token lists of its     *)
(* choice; PrintHelp, on the help path, sorts p.args (lines 295-297).      *)
(***************************************************************************)
MaxSeqArgs == 2     \* longest token list given to a Parse call in SpecSeq

SeqDefPool ==
    {Argument("a", ShortA, LongA, "bool", FALSE, NilV),
     Argument("b", ShortB, LongB, "string", TRUE, NilV),
     Argument("c", ShortA, LongC, "string", FALSE, NilV)}

SeqTokens ==
    {<<"-", "a">>, <<"-", "-", "b", "b">>, <<"x">>, HelpShort, VersionLong}

\* Parse, the whole call: what it returns and what it leaves in the Parser.
ParseCall(tokens) ==
    /\ osArgs' = tokens
    /\ args' = IF Len(tokens) = 0 \/ containsHelpArgument(tokens)
               THEN sortByName(args) ELSE args
    /\ ret' = Parse(args, exclusiveGroups, tokens)
    /\ pc' = "done"
    /\ UNCHANGED <<exclusiveGroups, commands, i, parsedArgs, supplied>>

NextSeq ==
    \/ pc = "build" /\ \E d \in SeqDefPool : AddArgument(d)
    \/ \E tokens \in TokenLists(SeqTokens, MaxSeqArgs) : ParseCall(tokens)

SpecSeq == Init /\ [][NextSeq]_vars

(***************************************************************************)
(* C21.  Parse is deterministic in (schema, token list): whatever calls    *)
(* came before, a call with the token list T returns what a call with T    *)
(* returns on a freshly built identical Parser.  The Parser is fresh       *)
(* before its first call, so this is: no Parse call changes what a Parse   *)
(* call returns for any token list T.                                      *)
(***************************************************************************)
C21_Deterministic ==
    [][pc' = "done" =>
         \A T \in TokenLists(SeqTokens, MaxSeqArgs) :
            Parse(args', exclusiveGroups', T) = Parse(args, exclusiveGroups, T)]_vars

(***************************************************************************)
(* SpecScan: goparse.go on schemas and token lists chosen for the scan     *)
(* loop of parseArguments (stacked tokens, Bool, String and []string       *)
(* flags, shared aliases), with the scheduling of the loop: once Parse has *)
(* called parseArguments the loop keeps running (nothing in it waits,      *)
(* lines 134-203), so a step of the scan that can be taken is taken.       *)
(***************************************************************************)
MaxScanArgs == 3    \* longest token list given to Parse in SpecScan

ScanDefPool ==
    {Argument("a", ShortA, LongA, "bool", FALSE, NilV),
     Argument("a", ShortA, LongA, "string", FALSE, NilV),
     Argument("b", ShortB, LongB, "bool", FALSE, NilV),
     Argument("b", ShortB, LongB, "[]string", TRUE, NilV),
     Argument("b", ShortB, LongB, "int", FALSE, NilV),
     Argument("c", ShortA, LongC, "string", FALSE, NilV)}

ScanTokens ==
    {<<"-", "a">>, <<"-", "-", "b", "b">>, <<"-", "a", "b">>, <<"-", "5">>, <<"x">>}

NextScan ==
    \/ pc = "build" /\ \E d \in ScanDefPool : AddArgument(d)
    \/ pc = "build" /\ \E tokens \in TokenLists(ScanTokens, MaxScanArgs) : ParseHelp(tokens)
    \/ pc = "build" /\ \E tokens \in TokenLists(ScanTokens, MaxScanArgs) : ParseBegin(tokens)
    \/ ScanStacked
    \/ ScanFlag
    \/ ScanEnd
    \/ CheckRequired
    \/ CheckGroups

SpecScan == Init /\ [][NextScan]_vars /\ WF_vars(ScanStacked \/ ScanFlag \/ ScanEnd)

\* the kind of the definition the token at the index resolves to
KindAtToken == IF Resolves(osArgs[i]) = 0 THEN "" ELSE args[Resolves(osArgs[i])].DataType

(***************************************************************************)
(* C22.  The scan of a finite token list terminates, and it is one pass    *)
(* from left to right: the token index never decreases; on every iteration *)
(* after which the scan goes on it strictly increases, past the value      *)
(* token an Int or String flag consumed and past the whole run of tokens a *)
(* []string flag consumed, so that no token is visited twice.              *)
(***************************************************************************)
C22_ScanTerminates ==
    /\ [][AtToken =>
            /\ i' >= i
            /\ pc' = "scan" =>
                 /\ i' > i
                 /\ KindAtToken \in {"int", "string"} => i' >= i + 2
                 /\ KindAtToken = "[]string" => i' >= i + 1 + RunLength(osArgs, i)]_vars
    /\ (pc = "scan") ~> (pc # "scan")

\* the scan has moved past a flag and the value it consumed
C22_Witness ==
    /\ pc = "scan"
    /\ Len(osArgs) = 3
    /\ i = 3
    /\ osArgs[2] = <<"x">>
    /\ Has(parsedArgs, "a")
    /\ parsedArgs["a"] = StrV(<<"x">>)

(***************************************************************************)
(* C23.  A single-dash token longer than two characters in which a         *)
(* character is not the short alias of a Bool definition fails atomically: *)
(* the step that reads it returns an UnknownArgument error and has marked  *)
(* none of the options named by its other characters, so the working map   *)
(* is, at the return, as it was before the token.                          *)
(***************************************************************************)
C23_StackedFailsAtomically ==
    [][(/\ AtToken
        /\ isStacked(osArgs[i])
        /\ \E j \in 2..Len(osArgs[i]) :
              ~\E k \in 1..Len(args) :
                  args[k].Short = <<osArgs[i][j]>> /\ args[k].DataType = "bool")
          => /\ pc' = "done"
             /\ ret'.err.kind = "UnknownArgument"
             /\ parsedArgs' = parsedArgs]_vars

(***************************************************************************)
(* C24.  A token that matches the alias of a definition whose kind is not  *)
(* one of bool, int, string, []string makes Parse fail with the            *)
(* UnknownKind error naming the kind and the option, whether or not a      *)
(* value token follows the flag; a Parse that returns UnknownKind has read *)
(* a token matching the definition it names.                               *)
(***************************************************************************)
C24_UnknownKind ==
    [][/\ (AtToken /\ KindAtToken # "" /\ KindAtToken \notin KnownKinds)
          => /\ pc' = "done"
             /\ ret'.err = ErrUnknownKind(KindAtToken, args[Resolves(osArgs[i])].Name)
       /\ (pc' = "done" /\ ret'.err.kind = "UnknownKind" /\ pc # "done")
          => /\ AtToken
             /\ \E k \in 1..Len(args) :
                   /\ Aliased(args[k], osArgs[i])
                   /\ args[k].Name = ret'.err.name]_vars

\* the error the scan raises at the token it is about to read
ErrorAtToken == parseToken(args, osArgs, i, parsedArgs).err

\* every token of the list has been read and none failed
EveryTokenMatched == pc \in {"required", "groups", "done"} /\ i > Len(osArgs)

(***************************************************************************)
(* C25.  Errors are reported in pipeline order: when the scan stops at a   *)
(* token that fails matching or coercion (the leftmost such token), Parse  *)
(* returns the error of that token and no validation error;                *)
(* MissingRequired is returned only when every token matched, and          *)
(* MutuallyExclusive or MissingOneOf only when in addition every required  *)
(* option was supplied.                                                    *)
(***************************************************************************)
C25_PipelineOrder ==
    /\ [][(AtToken /\ pc' = "done") => ret'.err = ErrorAtToken]_vars
    /\ []((pc = "done" /\ ret.err.kind = "MissingRequired") => EveryTokenMatched)
    /\ []((pc = "done" /\ ret.err.kind \in {"MutuallyExclusive", "MissingOneOf"})
            => (EveryTokenMatched /\ RequiredSupplied))

\* a value that is not, and does not hold, a token starting with a dash,
\* and is not a negative number
NoDashValue(v) ==
    /\ v.t = "string" => ~StartsWithDash(v.s)
    /\ v.t = "[]string" => \A j \in 1..Len(v.l) : ~StartsWithDash(v.l[j])
    /\ v.t = "int" => v.n >= 0

(***************************************************************************)
(* C27.  No token starting with a dash is consumed as a value: in every    *)
(* state of the scan the working map, which then holds only what the       *)
(* tokens gave, and in every successful result the options the tokens      *)
(* supplied, hold no String and no []string element that starts with a     *)
(* dash, and no negative Int.                                              *)
(***************************************************************************)
C27_NoDashValue ==
    /\ pc = "scan" => \A n \in DOMAIN parsedArgs : NoDashValue(parsedArgs[n])
    /\ (pc = "done" /\ ~ret.nilResult)
          => \A n \in supplied : NoDashValue(ret.result[n])

\* a []string flag, one value, then a token starting with a dash that is
\* left to the scan
C27_Witness ==
    /\ pc = "done"
    /\ ~ret.nilResult
    /\ osArgs = << <<"-", "-", "b", "b">>, <<"x">>, <<"-", "a">> >>
    /\ "b" \in supplied
    /\ ret.result["b"] = ListV(<< <<"x">> >>)

\* the token at the index is a flag of more than one definition
SharedAliasAtToken ==
    Cardinality({k \in 1..Len(args) : Aliased(args[k], osArgs[i])}) > 1

\* what follows the token at the index is valid for a definition of kind
\* dataType: nothing is needed for a Bool, a well-formed value otherwise
ValidForKind(dataType) ==
    \/ dataType = "bool"
    \/ /\ dataType \in {"int", "string", "[]string"}
       /\ ~NoValueAfter
       /\ WellFormedValue(osArgs[i + 1], dataType)

\* the index after one occurrence of a flag of kind dataType
IndexAfter(dataType) ==
    CASE dataType = "bool" -> i + 1
      [] dataType = "[]string" -> i + 1 + RunLength(osArgs, i)
      [] OTHER -> i + 2

(***************************************************************************)
(* C28.  When several definitions share the alias the scan reads, the      *)
(* token is matched against the first of them in declaration order and no  *)
(* other: if what follows is valid for that definition the step raises no  *)
(* error, assigns that definition's option and no other, and moves the     *)
(* index past the value tokens of one occurrence, for Bool and non-Bool    *)
(* kinds alike.                                                            *)
(***************************************************************************)
C28_FirstDefinitionOnly ==
    [][(/\ AtToken
        /\ Resolves(osArgs[i]) # 0
        /\ SharedAliasAtToken
        /\ ValidForKind(KindAtToken))
          => /\ pc' = "scan"
             /\ i' = IndexAfter(KindAtToken)
             /\ DOMAIN parsedArgs' = DOMAIN parsedArgs \cup {args[Resolves(osArgs[i])].Name}
             /\ \A n \in DOMAIN parsedArgs :
                   n # args[Resolves(osArgs[i])].Name => parsedArgs'[n] = parsedArgs[n]]_vars

(***************************************************************************)
(* C29.  When a command is invoked, the tokens after its name are matched  *)
(* only against the command's definitions: they set no top-level option,   *)
(* so that every top-level entry of a successful result is the value of an *)
(* option no token supplied, even when a top-level definition shares an    *)
(* alias with a definition of the command.                                 *)
(***************************************************************************)
C29_TopLevelUntouched ==
    (pc = "done" /\ ~ret.nilResult /\ \E c \in 1..Len(commands) : Selected(c))
       => \A k \in 1..Len(args) :
             Has(ret.result, args[k].Name)
                => ret.result[args[k].Name] = ZeroValue(args[k].DataType)

\* the places from p on that hold neither a flag of defs nor the value
\* token of such a flag
RECURSIVE LeftoverIn(_, _, _)
LeftoverIn(defs, tokens, p) ==
    IF p > Len(tokens) THEN {}
    ELSE LET k == ResolvesIn(defs, tokens[p]) IN
        IF k = 0 THEN {p} \cup LeftoverIn(defs, tokens, p + 1)
        ELSE IF defs[k].DataType = "bool" THEN LeftoverIn(defs, tokens, p + 1)
        ELSE LeftoverIn(defs, tokens, p + 2)

(***************************************************************************)
(* C30.  After a command is dispatched, a token after its name that        *)
(* matches no definition of the command, at whatever place, makes Parse    *)
(* fail with the UnknownSubcommandTokens error ('unknown                   *)
(* subcommand/subflag sequence'); no such token is silently ignored.       *)
(***************************************************************************)
C30_LeftoverRejected ==
    \A c \in 1..Len(commands) :
       (/\ pc = "done"
        /\ Selected(c)
        /\ LeftoverIn(commands[c].Arguments, Tail(osArgs), 1) # {})
          => /\ ret.nilResult
             /\ ret.err.kind = "UnknownSubcommand"

====
